---- MODULE Spec2Model ----
(***************************************************************************)
(* A model of the cardano key / CBOR serialization modules:                *)
(*   cardano/module/serialization.py  (CBORSerializable, default_encoder)  *)
(*   cardano/module/key.py            (Key and its subclasses)             *)
(*   cardano/module/crypto/bip32.py   (BIP32ED25519 private/public key)    *)
(*                                                                         *)
(* Python values are tagged tuples <<tag, body...>>, the tag being the     *)
(* Python type name, so that any two values can be compared.               *)
(***************************************************************************)
EXTENDS Integers, Sequences, FiniteSets, TLC

\* ------------------------------------------------------------------ bounds
MaxPayloadLen == 2
MaxDepth == 3
MaxMsgLen == 2
MaxSaves == 3

VARIABLES key, grd, nrm, val, enc, sgn, fil

vars == <<key, grd, nrm, val, enc, sgn, fil>>

\* ----------------------------------------------------------------- helpers
SeqsUpTo(S, n) == UNION {[1..k -> S] : k \in 0..n}

RECURSIVE Concat(_)
Concat(ss) == IF ss = <<>> THEN <<>> ELSE Head(ss) \o Concat(Tail(ss))

\* The value being idle: a subsystem a specification does not exercise.
Idle == [pc |-> "idle"]

\* ------------------------------------------------------- python type names
TypeOf(v) == v[1]

\* The classes a type derives from (its proper bases), as isinstance sees them.
KeyClasses ==
  {"Key", "SigningKey", "VerificationKey", "ExtendedSigningKey",
   "ExtendedVerificationKey", "PaymentSigningKey", "PaymentVerificationKey",
   "PaymentExtendedSigningKey", "PaymentExtendedVerificationKey"}

Bases(T) ==
  CASE T = "bool" -> {"int"}
    [] T = "OrderedDict" -> {"dict"}
    [] T = "defaultdict" -> {"dict"}
    [] T = "IndefiniteFrozenList" -> {"FrozenList", "IndefiniteList"}
    [] T = "PaymentSigningKey" -> {"SigningKey", "Key", "CBORSerializable"}
    [] T = "PaymentVerificationKey" -> {"VerificationKey", "Key", "CBORSerializable"}
    [] T = "PaymentExtendedSigningKey" -> {"ExtendedSigningKey", "Key", "CBORSerializable"}
    [] T = "PaymentExtendedVerificationKey" ->
         {"ExtendedVerificationKey", "Key", "CBORSerializable"}
    [] T \in {"SigningKey", "VerificationKey", "ExtendedSigningKey",
              "ExtendedVerificationKey"} -> {"Key", "CBORSerializable"}
    [] T = "Key" -> {"CBORSerializable"}
    [] T = "Serializable" -> {"CBORSerializable"}
    [] OTHER -> {}

\* isinstance(value, types)
IsInstance(v, types) == \E T \in types : TypeOf(v) = T \/ T \in Bases(TypeOf(v))

\* ------------------------------------------------------------ call results
\* A call either returns a value or raises an exception with a message.
Return(v) == [exc |-> "", msg |-> <<>>, ret |-> v]
Raise(e, m) == [exc |-> e, msg |-> m, ret |-> <<"NoneType">>]
Raised(r) == r.exc # ""

PyNone == <<"NoneType">>
PyBool(b) == <<"bool", b>>
PyStr(cs) == <<"str", cs>>
IsTrue(r) == ~Raised(r) /\ r.ret = PyBool(TRUE)

\* ------------------------------------------------------------------ Key
\* An optional str argument: <<>> is None, <<s>> is the string s.
NoneArg == <<>>
Truthy(o) == o # <<>> /\ o[1] # ""
PyOr(o, d) == IF Truthy(o) THEN o[1] ELSE d

KEY_TYPE(cls) ==
  CASE cls = "PaymentSigningKey" -> "PaymentSigningKeyShelley_ed25519"
    [] cls = "PaymentVerificationKey" -> "PaymentVerificationKeyShelley_ed25519"
    [] cls = "PaymentExtendedSigningKey" ->
         "PaymentExtendedSigningKeyShelley_ed25519_bip32"
    [] cls = "PaymentExtendedVerificationKey" ->
         "PaymentExtendedVerificationKeyShelley_ed25519_bip32"
    [] OTHER -> ""

DESCRIPTION(cls) ==
  CASE cls \in {"PaymentSigningKey", "PaymentExtendedSigningKey"} ->
         "Payment Signing Key"
    [] cls \in {"PaymentVerificationKey", "PaymentExtendedVerificationKey"} ->
         "Payment Verification Key"
    [] OTHER -> ""

\* A Key object is <<class, payload, key_type, description>>.
KeyInit(cls, payload, key_type, description) ==
  <<cls, payload, PyOr(key_type, KEY_TYPE(cls)), PyOr(description, KEY_TYPE(cls))>>

KeyPayload(k) == k[2]
KeyType(k) == k[3]
KeyDescription(k) == k[4]

Key_to_primitive(k) == KeyPayload(k)

\* ---------------------------------------------- to_primitive and its _dfs
\* A Serializable object is <<"Serializable", fields, shallow>>: its declared
\* fields <<name, type hint, value>> and what to_shallow_primitive returns.
ObjFields(o) == o[2]
ToShallowPrimitive(o) == o[3]

\* _dict[k] = v on an insertion-ordered mapping (a sequence of <<k, v>>).
DictSet(d, k, v) ==
  IF \E i \in 1..Len(d) : d[i][1] = k
  THEN [i \in 1..Len(d) |-> IF d[i][1] = k THEN <<k, v>> ELSE d[i]]
  ELSE Append(d, <<k, v>>)

\* _dict.setdefault(k): inserts k -> None when k is absent.
DictSetDefault(d, k) ==
  IF \E i \in 1..Len(d) : d[i][1] = k THEN d ELSE Append(d, <<k, PyNone>>)

HasDefaultFactory(v) == TypeOf(v) = "defaultdict"

\* type(value)(): an empty mapping of the same class.
EmptyLike(v) ==
  IF TypeOf(v) = "defaultdict" THEN <<"defaultdict", <<>>, PyNone>>
  ELSE <<TypeOf(v), <<>>>>

WithEntries(d, es) == [d EXCEPT ![2] = es]

RECURSIVE Dfs(_, _), ToPrimitive(_), DfsItems(_, _, _), DfsItemsKeysUnfrozen(_, _, _)

ToPrimitive(o) ==
  IF TypeOf(o) \in KeyClasses THEN Key_to_primitive(o)
  ELSE Dfs(ToShallowPrimitive(o), FALSE)

\* (mutant) the keys are normalized with the caller's freeze flag.
DfsItemsKeysUnfrozen(d, es, fr) ==
  IF es = <<>> THEN d
  ELSE DfsItemsKeysUnfrozen(
         DictSet(d, Dfs(Head(es)[1], fr), Dfs(Head(es)[2], fr)), Tail(es), fr)

\* for k, v in value.items(): _dict[_dfs(k, freeze=True)] = _dfs(v, freeze)
DfsItems(d, es, fr) ==
  IF es = <<>> THEN d
  ELSE DfsItems(DictSet(d, Dfs(Head(es)[1], TRUE), Dfs(Head(es)[2], fr)),
                Tail(es), fr)

Dfs(v, fr) ==
  IF IsInstance(v, {"CBORSerializable"}) THEN Dfs(ToPrimitive(v), fr)
  ELSE IF IsInstance(v, {"dict", "OrderedDict", "defaultdict"}) THEN
    LET e0 == EmptyLike(v)
        d0 == IF HasDefaultFactory(v) THEN DictSetDefault(<<>>, v[3]) ELSE <<>>
        es == DfsItems(d0, v[2], fr)
    IN IF fr THEN <<"frozendict", es>> ELSE WithEntries(e0, es)
  ELSE IF IsInstance(v, {"set"}) THEN
    LET s == {Dfs(e, TRUE) : e \in v[2]}
    IN IF fr THEN <<"frozenset", s>> ELSE <<"set", s>>
  ELSE IF IsInstance(v, {"tuple"}) THEN
    <<"tuple", [i \in 1..Len(v[2]) |-> Dfs(v[2][i], fr)]>>
  ELSE IF IsInstance(v, {"list"}) THEN
    LET l == [i \in 1..Len(v[2]) |-> Dfs(v[2][i], fr)]
    IN IF fr THEN <<"FrozenList", l, TRUE>> ELSE <<"list", l>>
  ELSE IF IsInstance(v, {"IndefiniteList"}) THEN
    LET l == [i \in 1..Len(v[2]) |-> Dfs(v[2][i], fr)]
    IN IF fr THEN <<"IndefiniteFrozenList", l, TRUE>> ELSE <<"IndefiniteList", l>>
  ELSE IF IsInstance(v, {"CBORTag"}) THEN <<"CBORTag", v[2], Dfs(v[3], fr)>>
  ELSE v

\* ------------------------------------------------------------- validate
\* A type hint is <<"Any">>, <<"class", name>> (no __origin__),
\* <<"ClassVar", h>>, <<"Union", <<h, ...>>>>, <<"Dict", k, v>>, <<"List", h>>,
\* <<"Set", h>>, <<"Tuple", <<h, ...>>>>, or a generic of another origin:
\* <<"Type", h>> (one argument), <<"Callable", a, r>> (two).
HintOrigin(h) ==
  CASE h[1] \in {"Any", "class"} -> "None"
    [] h[1] = "Dict" -> "dict"
    [] h[1] = "List" -> "list"
    [] h[1] = "Set" -> "set"
    [] h[1] = "Tuple" -> "tuple"
    [] OTHER -> h[1]

\* type_hint.__args__
HintArgs(h) ==
  CASE h[1] \in {"Union", "Tuple"} -> h[2]
    [] h[1] \in {"Dict", "Callable"} -> <<h[2], h[3]>>
    [] h[1] \in {"ClassVar", "List", "Set", "Type"} -> <<h[2]>>
    [] OTHER -> <<>>

\* An enumeration of a set, in the order iteration happens to visit it.
SetToSeq(S) ==
  CHOOSE q \in [1..Cardinality(S) -> S] : \A e \in S : \E i \in DOMAIN q : q[i] = e

Iterable(v) ==
  TypeOf(v) \in {"list", "tuple", "IndefiniteList", "FrozenList",
                 "IndefiniteFrozenList", "set", "frozenset", "str", "bytes",
                 "dict", "OrderedDict", "defaultdict", "frozendict"}

\* The items `for item in value` visits.
IterItems(v) ==
  CASE TypeOf(v) \in {"set", "frozenset"} -> SetToSeq(v[2])
    [] TypeOf(v) = "str" -> [i \in 1..Len(v[2]) |-> PyStr(<<v[2][i]>>)]
    [] TypeOf(v) = "bytes" -> [i \in 1..Len(v[2]) |-> <<"int", v[2][i]>>]
    [] TypeOf(v) \in {"dict", "OrderedDict", "defaultdict", "frozendict"} ->
         [i \in 1..Len(v[2]) |-> v[2][i][1]]
    [] OTHER -> v[2]

NotIterable(v) ==
  Raise("TypeError", << <<"text", "object is not iterable">>, <<"got", v>> >>)

\* The classes isinstance accepts as its second argument.
IsClass(name) == name # "Ellipsis"

FieldError(name, hint, value) ==
  Raise("TypeError", << <<"field", name>>, <<"expected", hint>>, <<"got", value>> >>)

\* `origin is Dict`: __origin__ of typing.Dict[K, V] is the class dict, never
\* the alias typing.Dict, so the test is false for every hint.
OriginIsDict(origin) == FALSE

RECURSIVE CheckRecursive(_, _), CheckAny(_, _), CheckAll(_, _), CheckZip(_, _),
          CheckDictItems(_, _, _), Validate(_), ValidateFields(_)

\* any(_check_recursive(value, arg) for arg in args)
CheckAny(value, args) ==
  IF args = <<>> THEN Return(PyBool(FALSE))
  ELSE LET r == CheckRecursive(value, Head(args))
       IN IF Raised(r) \/ IsTrue(r) THEN r ELSE CheckAny(value, Tail(args))

\* all(_check_recursive(item, hint) for item in items)
CheckAll(items, hint) ==
  IF items = <<>> THEN Return(PyBool(TRUE))
  ELSE LET r == CheckRecursive(Head(items), hint)
       IN IF Raised(r) \/ ~IsTrue(r) THEN r ELSE CheckAll(Tail(items), hint)

\* all(_check_recursive(item, arg) for item, arg in zip(value, args))
CheckZip(items, args) ==
  IF items = <<>> \/ args = <<>> THEN Return(PyBool(TRUE))
  ELSE LET r == CheckRecursive(Head(items), Head(args))
       IN IF Raised(r) \/ ~IsTrue(r) THEN r ELSE CheckZip(Tail(items), Tail(args))

\* all(check(k, key_type) and check(v, value_type) for k, v in value.items())
CheckDictItems(es, kt, vt) ==
  IF es = <<>> THEN Return(PyBool(TRUE))
  ELSE LET rk == CheckRecursive(Head(es)[1], kt)
           rv == CheckRecursive(Head(es)[2], vt)
       IN IF Raised(rk) \/ ~IsTrue(rk) THEN rk
          ELSE IF Raised(rv) \/ ~IsTrue(rv) THEN rv
          ELSE CheckDictItems(Tail(es), kt, vt)

CheckRecursive(value, hint) ==
  LET origin == HintOrigin(hint)
      args == HintArgs(hint)
  IN
  IF hint[1] = "Any" THEN Return(PyBool(TRUE))
  ELSE IF origin = "None" THEN
    LET nested == IF IsInstance(value, {"CBORSerializable"}) THEN Validate(value)
                  ELSE Return(PyNone)
    IN IF Raised(nested) THEN nested
       ELSE IF ~IsClass(hint[2])
         THEN Raise("TypeError", << <<"text", "isinstance() arg 2 must be a type">> >>)
       ELSE Return(PyBool(IsInstance(value, {hint[2]})))
  ELSE IF origin = "ClassVar" THEN CheckRecursive(value, args[1])
  ELSE IF origin = "Union" THEN CheckAny(value, args)
  ELSE IF OriginIsDict(origin) \/ IsInstance(value, {"dict", "frozendict"}) THEN
    IF Len(args) # 2
    THEN Raise("ValueError", << <<"text", "wrong number of values to unpack">> >>)
    ELSE IF ~IsInstance(value, {"dict", "frozendict"})
    THEN Raise("AttributeError", << <<"text", "no attribute items">>, <<"got", value>> >>)
    ELSE CheckDictItems(value[2], args[1], args[2])
  ELSE IF origin \in {"list", "set", "tuple"} THEN
    IF value = PyNone THEN Return(PyBool(TRUE))
    ELSE IF Len(args) = 1 THEN
      IF Iterable(value) THEN CheckAll(IterItems(value), args[1])
      ELSE NotIterable(value)
    ELSE IF Len(args) > 1 THEN
      IF Iterable(value) THEN CheckZip(IterItems(value), args)
      ELSE NotIterable(value)
    ELSE Return(PyBool(TRUE))
  ELSE Return(PyBool(TRUE))

\* for field_name, field_type in type_hints.items(): ...
ValidateFields(fs) ==
  IF fs = <<>> THEN Return(PyNone)
  ELSE LET f == Head(fs)
           r == CheckRecursive(f[3], f[2])
       IN IF Raised(r) THEN r
          ELSE IF ~IsTrue(r) THEN FieldError(f[1], f[2], f[3])
          ELSE ValidateFields(Tail(fs))

\* Key declares no annotated attribute: get_type_hints(Key) is empty.
Validate(o) ==
  IF TypeOf(o) \in KeyClasses THEN Return(PyNone) ELSE ValidateFields(ObjFields(o))

\* ----------------------------------------------------------- CBOR encoding
\* What an encoding step leaves: the exception raised (if any), the bytes
\* written to the encoder's buffer, and the log of the validate() and
\* to_primitive() calls made on the way, in call order.
EOk(out, log) == [exc |-> "", msg |-> <<>>, out |-> out, log |-> log]
EFail(r, out, log) == [exc |-> r.exc, msg |-> r.msg, out |-> out, log |-> log]

\* (mutant) the primitive is produced without validating first.
ToValidatedPrimitiveUnchecked(o) ==
  [exc |-> "", msg |-> <<>>, ret |-> ToPrimitive(o),
   log |-> << <<"to_primitive", o>> >>]

\* self.validate(); return self.to_primitive()
ToValidatedPrimitive(o) ==
  LET AfterValidate(r) ==
        IF Raised(r)
        THEN [exc |-> r.exc, msg |-> r.msg, ret |-> PyNone,
              log |-> << <<"validate", o>> >>]
        ELSE [exc |-> "", msg |-> <<>>, ret |-> ToPrimitive(o),
              log |-> << <<"validate", o>>, <<"to_primitive", o>> >>]
  IN AfterValidate(Validate(o))

\* The code point of a character, for the characters the model uses.
Ord(c) == CASE c = "a" -> 97 [] c = "b" -> 98 [] OTHER -> 63

\* The head of a data item: major type and length/value argument.
EncodeHead(major, n) ==
  IF n < 24 THEN <<major * 32 + n>> ELSE <<major * 32 + 24, n % 256>>

\* (mutant) the break marker is not written.
WriteIndefiniteNoBreak(body) == <<159>> \o body

\* encoder.write(b"\x9f"); each item; encoder.write(b"\xff")
WriteIndefinite(body) == <<159>> \o body \o <<255>>

RECURSIVE Encode(_), EncodeSeq(_), DefaultEncoder(_)

\* The items of a sequence encoded one after the other; the first failure ends it.
EncodeSeq(items) ==
  IF items = <<>> THEN EOk(<<>>, <<>>)
  ELSE LET AfterRest(h, t) == [t EXCEPT !.out = h.out \o t.out, !.log = h.log \o t.log]
           AfterHead(h) == IF Raised(h) THEN h ELSE AfterRest(h, EncodeSeq(Tail(items)))
       IN AfterHead(Encode(Head(items)))

\* A sequence of <<k, v>> flattened to k, v, k, v, ...
Flatten(es) == Concat([i \in 1..Len(es) |-> <<es[i][1], es[i][2]>>])

\* Bytes written before the body of a container, then the body.
WithPrefix(prefix, r) == [r EXCEPT !.out = prefix \o r.out]

DefaultEncoder(v) ==
  IF ~(IsInstance(v, {"CBORSerializable", "IndefiniteList", "RawCBOR",
                      "FrozenList", "IndefiniteFrozenList", "frozendict"}))
  THEN EFail(Raise("AssertionError", << <<"got", v>> >>), <<>>, <<>>)
  ELSE IF IsInstance(v, {"IndefiniteList", "IndefiniteFrozenList"}) THEN
    LET AfterItems(r) == IF Raised(r) THEN WithPrefix(<<159>>, r)
                         ELSE [r EXCEPT !.out = WriteIndefinite(r.out)]
    IN AfterItems(EncodeSeq(v[2]))
  ELSE IF IsInstance(v, {"RawCBOR"}) THEN EOk(v[2], <<>>)
  ELSE IF IsInstance(v, {"FrozenList"}) THEN Encode(<<"list", v[2]>>)
  ELSE IF IsInstance(v, {"frozendict"}) THEN Encode(<<"dict", v[2]>>)
  ELSE
    LET AfterEncode(p, r) == [r EXCEPT !.log = p.log \o r.log]
        AfterPrimitive(p) == IF Raised(p) THEN EFail(p, <<>>, p.log)
                             ELSE AfterEncode(p, Encode(p.ret))
    IN AfterPrimitive(ToValidatedPrimitive(v))

\* CBOREncoder.encode: the encoder of the value's type, else default_encoder.
Encode(v) ==
  CASE TypeOf(v) = "int" -> EOk(EncodeHead(0, v[2]), <<>>)
    [] TypeOf(v) = "bytes" -> EOk(EncodeHead(2, Len(v[2])) \o v[2], <<>>)
    [] TypeOf(v) = "str" ->
         EOk(EncodeHead(3, Len(v[2])) \o [i \in 1..Len(v[2]) |-> Ord(v[2][i])], <<>>)
    [] TypeOf(v) = "bool" -> EOk(IF v[2] THEN <<245>> ELSE <<244>>, <<>>)
    [] TypeOf(v) = "NoneType" -> EOk(<<246>>, <<>>)
    [] TypeOf(v) \in {"list", "tuple"} ->
         WithPrefix(EncodeHead(4, Len(v[2])), EncodeSeq(v[2]))
    [] TypeOf(v) \in {"dict", "OrderedDict", "defaultdict"} ->
         WithPrefix(EncodeHead(5, Len(v[2])), EncodeSeq(Flatten(v[2])))
    [] TypeOf(v) \in {"set", "frozenset"} ->
         WithPrefix(<<217, 1, 2>> \o EncodeHead(4, Cardinality(v[2])),
                    EncodeSeq(SetToSeq(v[2])))
    [] TypeOf(v) = "CBORTag" -> WithPrefix(EncodeHead(6, v[2]), Encode(v[3]))
    [] OTHER -> DefaultEncoder(v)

\* dumps(value, default=default_encoder): the bytes, or the exception.
Dumps(v) ==
  LET AfterEncode(r) ==
        IF Raised(r) THEN [exc |-> r.exc, msg |-> r.msg, ret |-> PyNone, log |-> r.log]
        ELSE [exc |-> "", msg |-> <<>>, ret |-> <<"bytes", r.out>>, log |-> r.log]
  IN AfterEncode(Encode(v))

\* CBORSerializable.to_cbor
ToCbor(o) == Dumps(o)

\* ----------------------------------------------------------- CBOR decoding
\* The character of a code point, for the characters the model uses.
Chr(n) == CASE n = 97 -> "a" [] n = 98 -> "b" [] OTHER -> "?"

DOk(v, next) == [ok |-> TRUE, val |-> v, next |-> next]
DFail == [ok |-> FALSE, val |-> PyNone, next |-> 0]

\* The argument of a head at position i: <<value, position after the head>>,
\* <<-1, i + 1>> for the indefinite-length marker, <<>> when bytes are missing
\* or the width is not modelled.
HeadArg(bs, i) ==
  LET info == bs[i] % 32
  IN IF info < 24 THEN <<info, i + 1>>
     ELSE IF info = 24 THEN IF i + 1 <= Len(bs) THEN <<bs[i + 1], i + 2>> ELSE <<>>
     ELSE IF info = 25
       THEN IF i + 2 <= Len(bs) THEN <<bs[i + 1] * 256 + bs[i + 2], i + 3>> ELSE <<>>
     ELSE IF info = 31 THEN <<-1, i + 1>>
     ELSE <<>>

\* Entries <<k, v>> built from the items k, v, k, v, ... by d[k] = v.
RECURSIVE PairUp(_, _)
PairUp(d, items) ==
  IF Len(items) < 2 THEN d
  ELSE PairUp(DictSet(d, items[1], items[2]), Tail(Tail(items)))

RECURSIVE DecodeAt(_, _), DecodeItems(_, _, _, _), DecodeUntilBreak(_, _, _)

\* n items from position i on, appended to acc.
DecodeItems(bs, i, n, acc) ==
  IF n = 0 THEN DOk(acc, i)
  ELSE LET AfterItem(r) == IF ~r.ok THEN DFail
                           ELSE DecodeItems(bs, r.next, n - 1, Append(acc, r.val))
       IN AfterItem(DecodeAt(bs, i))

\* Items from position i on up to the break marker, appended to acc.
DecodeUntilBreak(bs, i, acc) ==
  IF i > Len(bs) THEN DFail
  ELSE IF bs[i] = 255 THEN DOk(acc, i + 1)
  ELSE LET AfterItem(r) == IF ~r.ok THEN DFail
                           ELSE DecodeUntilBreak(bs, r.next, Append(acc, r.val))
       IN AfterItem(DecodeAt(bs, i))

\* The data item at position i of bs.
DecodeAt(bs, i) ==
  IF i > Len(bs) THEN DFail
  ELSE
    LET major == bs[i] \div 32
        ha == HeadArg(bs, i)
    IN
    IF ha = <<>> THEN DFail
    ELSE
      LET n == ha[1]
          j == ha[2]
      IN
      CASE major = 0 /\ n >= 0 -> DOk(<<"int", n>>, j)
        [] major = 1 /\ n >= 0 -> DOk(<<"int", -1 - n>>, j)
        [] major = 2 /\ n >= 0 /\ j + n - 1 <= Len(bs) ->
             DOk(<<"bytes", SubSeq(bs, j, j + n - 1)>>, j + n)
        [] major = 3 /\ n >= 0 /\ j + n - 1 <= Len(bs) ->
             DOk(PyStr([k \in 1..n |-> Chr(bs[j + k - 1])]), j + n)
        [] major = 4 ->
             LET AsList(r) == IF r.ok THEN DOk(<<"list", r.val>>, r.next) ELSE DFail
             IN AsList(IF n = -1 THEN DecodeUntilBreak(bs, j, <<>>)
                       ELSE DecodeItems(bs, j, n, <<>>))
        [] major = 5 /\ n >= 0 ->
             LET AsDict(r) ==
                   IF r.ok THEN DOk(<<"dict", PairUp(<<>>, r.val)>>, r.next) ELSE DFail
             IN AsDict(DecodeItems(bs, j, 2 * n, <<>>))
        [] major = 6 /\ n >= 0 ->
             LET AsTag(r) ==
                   IF ~r.ok THEN DFail
                   ELSE IF n = 258 /\ TypeOf(r.val) = "list"
                     THEN DOk(<<"set", {r.val[2][k] : k \in 1..Len(r.val[2])}>>, r.next)
                   ELSE DOk(<<"CBORTag", n, r.val>>, r.next)
             IN AsTag(DecodeAt(bs, j))
        [] major = 7 /\ bs[i] = 244 -> DOk(PyBool(FALSE), j)
        [] major = 7 /\ bs[i] = 245 -> DOk(PyBool(TRUE), j)
        [] major = 7 /\ bs[i] = 246 -> DOk(PyNone, j)
        [] OTHER -> DFail

\* loads(payload): the first data item of the bytes.
Loads(b) ==
  LET AfterItem(r) == IF r.ok THEN Return(r.val)
                      ELSE Raise("CBORDecodeError", << <<"got", b>> >>)
  IN AfterItem(DecodeAt(b[2], 1))

\* ------------------------------------------------------------------- hex
HexDigits ==
  <<"0", "1", "2", "3", "4", "5", "6", "7", "8", "9", "a", "b", "c", "d", "e", "f">>

HexValue(c) == CHOOSE i \in 0..15 : HexDigits[i + 1] = c

\* bytes.hex(): two digits per byte, high nibble first.
ToHex(b) ==
  PyStr(Concat([i \in 1..Len(b[2]) |->
                  <<HexDigits[(b[2][i] \div 16) + 1], HexDigits[(b[2][i] % 16) + 1]>>]))

\* bytes.fromhex(s)
FromHex(h) ==
  IF Len(h[2]) % 2 # 0 \/ \E i \in 1..Len(h[2]) : \A k \in 1..16 : HexDigits[k] # h[2][i]
  THEN Raise("ValueError", << <<"got", h>> >>)
  ELSE Return(<<"bytes", [i \in 1..(Len(h[2]) \div 2) |->
                           16 * HexValue(h[2][2 * i - 1]) + HexValue(h[2][2 * i])]>>)

\* ------------------------------------------------- limit_primitive_type
\* (mutant) the key is built from the base class instead of cls.
KeyFromPrimitiveBodyBaseClass(cls, value) == KeyInit("Key", value, NoneArg, NoneArg)

\* The function the decorator wraps, the body of Key.from_primitive: cls(value).
KeyFromPrimitiveBody(cls, value) == KeyInit(cls, value, NoneArg, NoneArg)

\* (mutant) the guard compares the exact type and rejects subclasses.
LimitPrimitiveTypeExact(allowed, cls, value) ==
  IF ~(\E i \in 1..Len(allowed) : TypeOf(value) = allowed[i])
  THEN [exc |-> "DeserializeException",
        msg |-> << <<"allowed", allowed>>, <<"type", TypeOf(value)>>, <<"got", value>> >>,
        ret |-> PyNone, calls |-> <<>>]
  ELSE [exc |-> "", msg |-> <<>>, ret |-> KeyFromPrimitiveBody(cls, value),
        calls |-> <<value>>]

\* wrapper(cls, value) of limit_primitive_type(*allowed): the result of the
\* call, with the arguments the wrapped function was called with.
LimitPrimitiveType(allowed, cls, value) ==
  IF ~IsInstance(value, {allowed[i] : i \in 1..Len(allowed)})
  THEN [exc |-> "DeserializeException",
        msg |-> << <<"allowed", allowed>>, <<"type", TypeOf(value)>>, <<"got", value>> >>,
        ret |-> PyNone, calls |-> <<>>]
  ELSE [exc |-> "", msg |-> <<>>, ret |-> KeyFromPrimitiveBody(cls, value),
        calls |-> <<value>>]

\* ------------------------------------------------------- Key, continued
\* Key.from_primitive, under @limit_primitive_type(bytes).
Key_from_primitive(cls, value) == LimitPrimitiveType(<<"bytes">>, cls, value)

\* CBORSerializable.to_cbor_hex
ToCborHex(o) ==
  LET AfterToCbor(r) == IF Raised(r) THEN [exc |-> r.exc, msg |-> r.msg, ret |-> PyNone]
                        ELSE Return(ToHex(r.ret))
  IN AfterToCbor(ToCbor(o))

\* CBORSerializable.from_cbor
FromCbor(cls, payload) ==
  LET AfterFromPrimitive(k) == [exc |-> k.exc, msg |-> k.msg, ret |-> k.ret]
      AfterLoads(v) == IF Raised(v) THEN v
                       ELSE AfterFromPrimitive(Key_from_primitive(cls, v.ret))
      AfterFromHex(b) == IF Raised(b) THEN b ELSE AfterLoads(Loads(b.ret))
  IN AfterFromHex(IF TypeOf(payload) = "str" THEN FromHex(payload) ELSE Return(payload))

\* (mutant) the description is left out of the comparison.
Key__eq__NoDescription(a, b) ==
  IF ~IsInstance(b, {"Key"}) THEN FALSE
  ELSE KeyPayload(a) = KeyPayload(b) /\ KeyType(a) = KeyType(b)

\* Key.__eq__
Key__eq__(a, b) ==
  IF ~IsInstance(b, {"Key"}) THEN FALSE
  ELSE /\ KeyPayload(a) = KeyPayload(b)
       /\ KeyDescription(a) = KeyDescription(b)
       /\ KeyType(a) = KeyType(b)

\* hash(v) of a hashable value, kept as the value hashed: equal values have
\* equal hashes, and the model has no collisions.
PyHash(v) == <<"hash", v>>

\* Key.__hash__
Key__hash__(k) == PyHash(KeyPayload(k))

\* ------------------------------------------------ input trees of to_primitive
A1 == <<"int", 1>>
A2 == <<"int", 2>>
B7 == <<"bytes", <<7>>>>
Atoms == {A1, B7}

Obj(shallow) == <<"Serializable", <<>>, shallow>>

\* hash(v) is defined: what python accepts as a mapping key or a set element.
RECURSIVE Hashable(_)
Hashable(v) ==
  CASE TypeOf(v) \in {"list", "IndefiniteList", "dict", "OrderedDict",
                      "defaultdict", "set"} -> FALSE
    [] TypeOf(v) = "tuple" -> \A i \in 1..Len(v[2]) : Hashable(v[2][i])
    [] TypeOf(v) = "CBORTag" -> Hashable(v[3])
    [] OTHER -> TRUE

Wrap(t) ==
  {<<"list", <<t>>>>, <<"list", <<A1, t>>>>, <<"tuple", <<t, A1>>>>,
   <<"IndefiniteList", <<t>>>>,
   <<"dict", << <<A1, t>> >> >>,
   <<"dict", << <<A1, t>>, <<A2, A1>> >> >>,
   <<"OrderedDict", << <<B7, t>> >> >>,
   <<"defaultdict", << <<A1, t>> >>, <<"type", "list">> >>,
   <<"CBORTag", 6, t>>,
   Obj(t)}
  \cup (IF Hashable(t)
        THEN {<<"dict", << <<t, A1>> >> >>, <<"set", {t}>>, <<"set", {t, A2}>>}
        ELSE {})

RECURSIVE Trees(_)
Trees(d) ==
  IF d = 0 THEN Atoms
  ELSE LET P == Trees(d - 1) IN P \cup UNION {Wrap(t) : t \in P}

\* ------------------------------------------------- specification: to_primitive
InitPrim ==
  /\ nrm \in {[pc |-> "ready", x |-> Obj(t), out |-> PyNone] : t \in Trees(MaxDepth)}
  /\ key = Idle
  /\ grd = Idle
  /\ val = Idle
  /\ enc = Idle
  /\ sgn = Idle
  /\ fil = Idle

CallToPrimitive ==
  /\ nrm.pc = "ready"
  /\ nrm' = [nrm EXCEPT !.pc = "done", !.out = ToPrimitive(nrm.x)]
  /\ UNCHANGED <<key, grd, val, enc, sgn, fil>>

NextPrim == CallToPrimitive

SpecPrim == InitPrim /\ [][NextPrim]_vars

\* ---------------------------------------------------------------- C6
\* A value in frozen form: no mutable dict, list, set or IndefiniteList at or
\* below it, and every FrozenList frozen.
RECURSIVE FrozenForm(_)
FrozenForm(v) ==
  CASE TypeOf(v) \in {"list", "IndefiniteList", "dict", "OrderedDict",
                      "defaultdict", "set", "Serializable"} -> FALSE
    [] TypeOf(v) = "tuple" -> \A i \in 1..Len(v[2]) : FrozenForm(v[2][i])
    [] TypeOf(v) \in {"FrozenList", "IndefiniteFrozenList"} ->
         v[3] /\ \A i \in 1..Len(v[2]) : FrozenForm(v[2][i])
    [] TypeOf(v) = "frozendict" ->
         \A i \in 1..Len(v[2]) : FrozenForm(v[2][i][1]) /\ FrozenForm(v[2][i][2])
    [] TypeOf(v) = "frozenset" -> \A e \in v[2] : FrozenForm(e)
    [] TypeOf(v) = "CBORTag" -> FrozenForm(v[3])
    [] OTHER -> TRUE

\* Every mapping key and every set element of v is in frozen form.
RECURSIVE KeysFrozen(_)
KeysFrozen(v) ==
  CASE TypeOf(v) \in {"dict", "OrderedDict", "defaultdict"} ->
         \A i \in 1..Len(v[2]) : FrozenForm(v[2][i][1]) /\ KeysFrozen(v[2][i][2])
    [] TypeOf(v) = "set" -> \A e \in v[2] : FrozenForm(e)
    [] TypeOf(v) \in {"list", "tuple", "IndefiniteList"} ->
         \A i \in 1..Len(v[2]) : KeysFrozen(v[2][i])
    [] TypeOf(v) = "CBORTag" -> KeysFrozen(v[3])
    [] TypeOf(v) = "Serializable" -> FALSE
    [] OTHER -> FrozenForm(v)

\* Outside key and set-element positions, the output keeps the input's
\* (mutable) container classes, nested Serializable objects being resolved.
RECURSIVE StaysMutable(_, _)
StaysMutable(in, out) ==
  CASE TypeOf(in) = "Serializable" -> StaysMutable(ToShallowPrimitive(in), out)
    [] TypeOf(in) \in {"list", "tuple", "IndefiniteList"} ->
         /\ TypeOf(out) = TypeOf(in)
         /\ Len(out[2]) = Len(in[2])
         /\ \A i \in 1..Len(in[2]) : StaysMutable(in[2][i], out[2][i])
    [] TypeOf(in) \in {"dict", "OrderedDict", "defaultdict"} ->
         /\ TypeOf(out) = TypeOf(in)
         /\ \A i \in 1..Len(in[2]) :
              \E j \in 1..Len(out[2]) : StaysMutable(in[2][i][2], out[2][j][2])
    [] TypeOf(in) = "set" -> TypeOf(out) = "set"
    [] TypeOf(in) = "CBORTag" ->
         TypeOf(out) = "CBORTag" /\ out[2] = in[2] /\ StaysMutable(in[3], out[3])
    [] OTHER -> out = in

\* C6: in the value to_primitive returns, every mapping key and set element,
\* with all that is nested below it, is in frozen form, and the containers
\* outside such positions keep their mutable form.
C6_KeysAndElementsFrozen ==
  nrm.pc = "done" =>
    /\ KeysFrozen(nrm.out)
    /\ StaysMutable(nrm.x, nrm.out)

\* A mapping whose key is an object holding a list: the key comes out as a
\* frozen FrozenList, the mapping itself stays a dict.
C6_Witness ==
  /\ nrm.pc = "done"
  /\ nrm.x = Obj(<<"dict", << <<Obj(<<"list", <<A1>>>>), A1>> >> >>)
  /\ nrm.out = <<"dict", << << <<"FrozenList", <<A1>>, TRUE>>, A1>> >> >>

\* ----------------------------------------------- specification: validate
IntH == <<"class", "int">>
StrH == <<"class", "str">>
NoneH == <<"class", "NoneType">>
ObjH == <<"class", "Serializable">>
EllipsisH == <<"class", "Ellipsis">>
SAB == PyStr(<<"a", "b">>)

Hints ==
  {<<"Any">>, IntH, StrH, NoneH, ObjH, <<"ClassVar", IntH>>,
   <<"Union", <<IntH, NoneH>>>>, <<"Union", << <<"List", IntH>>, StrH>> >>,
   <<"Dict", StrH, IntH>>, <<"List", IntH>>, <<"List", StrH>>, <<"Set", IntH>>,
   <<"Tuple", <<IntH, StrH>>>>, <<"Tuple", <<IntH, EllipsisH>>>>,
   <<"Type", IntH>>, <<"Callable", IntH, StrH>>}

GoodObj == <<"Serializable", << <<"n", IntH, A1>> >>, A1>>
BadObj == <<"Serializable", << <<"n", IntH, SAB>> >>, A1>>

FieldValues ==
  {A1, PyBool(TRUE), SAB, B7,
   <<"list", <<A1>>>>, <<"list", <<SAB>>>>, <<"list", <<A1, SAB>>>>,
   <<"tuple", <<A1, SAB>>>>, <<"tuple", <<A1>>>>, <<"set", {A1}>>,
   <<"dict", << <<SAB, A1>> >> >>, <<"dict", << <<A1, A1>> >> >>,
   GoodObj, BadObj}

\* The objects validated: one field of any hint and value, alone or followed
\* by a second field that conforms or does not.
ValidatedObjects ==
  {<<"Serializable", <<<<"f", h, v>>>> \o more, A1>> :
     h \in Hints, v \in FieldValues,
     more \in {<<>>, << <<"g", IntH, A1>> >>, << <<"g", IntH, SAB>> >>}}

InitValidate ==
  /\ val \in {[pc |-> "ready", x |-> o, res |-> Return(PyNone)] : o \in ValidatedObjects}
  /\ key = Idle
  /\ grd = Idle
  /\ nrm = Idle
  /\ enc = Idle
  /\ sgn = Idle
  /\ fil = Idle

CallValidate ==
  /\ val.pc = "ready"
  /\ val' = [val EXCEPT !.pc = "done", !.res = Validate(val.x)]
  /\ UNCHANGED <<key, grd, nrm, enc, sgn, fil>>

NextValidate == CallValidate

SpecValidate == InitValidate /\ [][NextValidate]_vars

\* ---------------------------------------------------------------- C9
\* What it means for a value to conform to a declared type.
RECURSIVE Conforms(_, _), ObjConforms(_)
Conforms(value, hint) ==
  CASE hint[1] = "Any" -> TRUE
    [] hint[1] = "class" ->
         /\ IsClass(hint[2]) /\ IsInstance(value, {hint[2]})
         /\ (IsInstance(value, {"CBORSerializable"}) => ObjConforms(value))
    [] hint[1] = "ClassVar" -> Conforms(value, hint[2])
    [] hint[1] = "Union" -> \E i \in 1..Len(hint[2]) : Conforms(value, hint[2][i])
    [] hint[1] = "Dict" ->
         /\ IsInstance(value, {"dict", "frozendict"})
         /\ \A i \in 1..Len(value[2]) :
              Conforms(value[2][i][1], hint[2]) /\ Conforms(value[2][i][2], hint[3])
    [] hint[1] = "List" ->
         /\ IsInstance(value, {"list"})
         /\ \A i \in 1..Len(value[2]) : Conforms(value[2][i], hint[2])
    [] hint[1] = "Set" ->
         /\ IsInstance(value, {"set", "frozenset"})
         /\ \A e \in value[2] : Conforms(e, hint[2])
    [] hint[1] = "Tuple" ->
         /\ IsInstance(value, {"tuple"})
         /\ IF Len(hint[2]) = 2 /\ hint[2][2] = EllipsisH
            THEN \A i \in 1..Len(value[2]) : Conforms(value[2][i], hint[2][1])
            ELSE /\ Len(value[2]) = Len(hint[2])
                 /\ \A i \in 1..Len(hint[2]) : Conforms(value[2][i], hint[2][i])
    [] OTHER -> TRUE

ObjConforms(o) ==
  \A i \in 1..Len(ObjFields(o)) : Conforms(ObjFields(o)[i][3], ObjFields(o)[i][2])

\* The fields, of the object or of an object one of its fields holds, whose
\* value does not conform to the declared type.
RECURSIVE OffendingFields(_)
OffendingFields(o) ==
  {ObjFields(o)[i] : i \in {j \in 1..Len(ObjFields(o)) :
                              ~Conforms(ObjFields(o)[j][3], ObjFields(o)[j][2])}}
  \cup UNION {OffendingFields(ObjFields(o)[i][3]) :
               i \in {j \in 1..Len(ObjFields(o)) :
                        IsInstance(ObjFields(o)[j][3], {"CBORSerializable"})}}

\* C9: validate() passes only when every declared field conforms to its
\* declared type (Any and hints of unknown shape accept everything), and when
\* some field does not conform it fails with a TypeError naming an offending
\* field, its declared type and its value.
C9_ValidateChecksEveryField ==
  val.pc = "done" =>
    /\ ~Raised(val.res) => ObjConforms(val.x)
    /\ Raised(val.res) =>
         \E f \in OffendingFields(val.x) : val.res = FieldError(f[1], f[2], f[3])


\* ------------------------------------------------- specification: encoding
\* What is encoded: Serializable objects (to_cbor), the primitives they
\* normalize to, mutable or frozen (dumps with default_encoder).
EncodedValues ==
  Trees(MaxDepth - 1) \cup {Dfs(t, TRUE) : t \in Trees(MaxDepth - 1)}
    \cup ValidatedObjects

InitEncode ==
  /\ enc \in {[pc |-> "ready", x |-> v, res |-> Dumps(PyNone), buf |-> <<>>] :
               v \in EncodedValues}
  /\ key = Idle
  /\ grd = Idle
  /\ nrm = Idle
  /\ val = Idle
  /\ sgn = Idle
  /\ fil = Idle

\* x.to_cbor() on a Serializable object.
CallToCbor ==
  /\ enc.pc = "ready"
  /\ IsInstance(enc.x, {"CBORSerializable"})
  /\ enc' = [enc EXCEPT !.pc = "done", !.res = ToCbor(enc.x),
                        !.buf = Encode(enc.x).out]
  /\ UNCHANGED <<key, grd, nrm, val, sgn, fil>>

\* dumps(x, default=default_encoder) on a primitive.
CallDumps ==
  /\ enc.pc = "ready"
  /\ ~IsInstance(enc.x, {"CBORSerializable"})
  /\ enc' = [enc EXCEPT !.pc = "done", !.res = Dumps(enc.x),
                        !.buf = Encode(enc.x).out]
  /\ UNCHANGED <<key, grd, nrm, val, sgn, fil>>

NextEncode == CallToCbor \/ CallDumps

SpecEncode == InitEncode /\ [][NextEncode]_vars

\* ---------------------------------------------------------------- C7
\* The bytes of the items of a sequence, each encoded on its own, in order.
ItemBytes(items) == Concat([i \in 1..Len(items) |-> Encode(items[i]).out])

C8_ValidateBeforePrimitive ==
  (enc.pc = "done" /\ IsInstance(enc.x, {"CBORSerializable"})) =>
    LET log == enc.res.log
        v == Validate(enc.x)
    IN /\ log # <<>> /\ log[1] = <<"validate", enc.x>>
       /\ \A i \in 1..Len(log) :
            log[i][1] = "to_primitive" =>
              \E j \in 1..(i - 1) : log[j] = <<"validate", log[i][2]>>
       /\ Raised(v) =>
            /\ enc.res.exc = v.exc /\ enc.res.msg = v.msg
            /\ enc.res.ret = PyNone
            /\ enc.buf = <<>>
            /\ \A i \in 1..Len(log) : log[i] # <<"to_primitive", enc.x>>
       /\ ~Raised(v) => \E i \in 1..Len(log) : log[i] = <<"to_primitive", enc.x>>

\* An object whose field f: int holds a str: to_cbor raises the TypeError of
\* validate() and nothing is written.
C8_Witness ==
  /\ enc.pc = "done"
  /\ enc.x = <<"Serializable", << <<"f", IntH, SAB>> >>, A1>>
  /\ enc.res.exc = "TypeError"
  /\ enc.res.log = << <<"validate", enc.x>> >>
  /\ enc.buf = <<>>

\* ------------------------------------------------------ specification: Key
PayloadBytes == {7, 200}
Payloads == {<<"bytes", b>> : b \in SeqsUpTo(PayloadBytes, MaxPayloadLen)}
UsedKeyClasses == {"Key", "PaymentSigningKey", "PaymentExtendedVerificationKey"}
KeyTypeArgs == {NoneArg, <<"">>, <<"T">>}
DescriptionArgs == {NoneArg, <<"D">>}

\* Every key the constructor builds from the model's arguments.
Keys ==
  {KeyInit(c, p, t, e) :
     c \in UsedKeyClasses, p \in Payloads, t \in KeyTypeArgs, e \in DescriptionArgs}

\* What a key is compared with: other keys, and a value that is no Key.
OtherValues ==
  {KeyInit(c, p, t, e) :
     c \in {"Key", "PaymentSigningKey"}, p \in {<<"bytes", <<>>>>, B7},
     t \in {NoneArg, <<"T">>}, e \in DescriptionArgs}
  \cup {B7}

Unset == [exc |-> "unset", msg |-> <<>>, ret |-> PyNone]

InitKey ==
  /\ key \in {[x |-> k, w |-> o, y |-> Unset, z |-> Unset, cmp |-> <<>>] :
               k \in Keys, o \in OtherValues}
  /\ grd = Idle
  /\ nrm = Idle
  /\ val = Idle
  /\ enc = Idle
  /\ sgn = Idle
  /\ fil = Idle

\* y = type(x).from_primitive(x.to_primitive())
RoundTripPrimitive ==
  /\ key.y = Unset
  /\ LET Result(r) == [exc |-> r.exc, msg |-> r.msg, ret |-> r.ret]
     IN key' = [key EXCEPT
                  !.y = Result(Key_from_primitive(TypeOf(key.x), ToPrimitive(key.x)))]
  /\ UNCHANGED <<grd, nrm, val, enc, sgn, fil>>

\* z = type(x).from_cbor(x.to_cbor_hex())
RoundTripCbor ==
  /\ key.z = Unset
  /\ LET AfterHex(h) == IF Raised(h) THEN h ELSE FromCbor(TypeOf(key.x), h.ret)
     IN key' = [key EXCEPT !.z = AfterHex(ToCborHex(key.x))]
  /\ UNCHANGED <<grd, nrm, val, enc, sgn, fil>>

\* x == w, hash(x) and, when w is a Key, hash(w)
Compare ==
  /\ key.cmp = <<>>
  /\ key' = [key EXCEPT !.cmp =
       << [eq |-> Key__eq__(key.x, key.w),
           hx |-> Key__hash__(key.x),
           hw |-> IF IsInstance(key.w, {"Key"}) THEN Key__hash__(key.w)
                  ELSE PyHash(key.w)] >>]
  /\ UNCHANGED <<grd, nrm, val, enc, sgn, fil>>

NextKey == RoundTripPrimitive \/ RoundTripCbor \/ Compare

SpecKey == InitKey /\ [][NextKey]_vars

\* ---------------------------------------------------------------- C1
\* A key built without explicit key_type and description.
HasDefaultMetadata(k) == k = KeyInit(TypeOf(k), KeyPayload(k), NoneArg, NoneArg)

\* C1 (as claimed): for every Key x, whatever payload, key_type and
\* description it was given, from_primitive(to_primitive(x)) == x and
\* from_cbor(to_cbor_hex(x)) == x under Key.__eq__.
C1_RoundTripAnyKey ==
  /\ key.y # Unset => ~Raised(key.y) /\ Key__eq__(key.x, key.y.ret)
  /\ key.z # Unset => ~Raised(key.z) /\ Key__eq__(key.x, key.z.ret)

\* C1 (amended): both round trips return a key of x's class with x's payload
\* and the key_type and description of a key built without them; the result
\* equals x when x was built without explicit key_type and description.
C1_RoundTripDefaults ==
  \A r \in {key.y, key.z} :
    r # Unset =>
      /\ ~Raised(r)
      /\ r.ret = KeyInit(TypeOf(key.x), KeyPayload(key.x), NoneArg, NoneArg)
      /\ HasDefaultMetadata(key.x) => Key__eq__(key.x, r.ret) /\ Key__eq__(r.ret, key.x)

\* A PaymentSigningKey built with defaults and a two-byte payload went
\* through both round trips and came back equal.
C1_Witness ==
  /\ key.x = KeyInit("PaymentSigningKey", <<"bytes", <<7, 200>>>>, NoneArg, NoneArg)
  /\ key.y # Unset /\ key.z # Unset
  /\ Key__eq__(key.x, key.y.ret) /\ Key__eq__(key.x, key.z.ret)

\* ---------------------------------------------------------------- C3
SameTriple(a, b) ==
  /\ KeyPayload(a) = KeyPayload(b)
  /\ KeyType(a) = KeyType(b)
  /\ KeyDescription(a) = KeyDescription(b)

\* C3 (as claimed): two Keys are equal exactly when payload, key_type and
\* description are equal, and the hash is computed from the same three: keys
\* have the same hash exactly when the three components are equal.
C3_EqAndHashOverTriple ==
  (key.cmp # <<>> /\ IsInstance(key.w, {"Key"})) =>
    /\ key.cmp[1].eq <=> SameTriple(key.x, key.w)
    /\ key.cmp[1].hx = key.cmp[1].hw <=> SameTriple(key.x, key.w)

\* C3 (amended): two Keys are equal exactly when payload, key_type and
\* description are equal (a value that is no Key is never equal); the hash of
\* a Key is computed from the payload alone, so equal keys have equal hashes
\* and keys that differ only in key_type or description share a hash.
C3_EqOverTripleHashOverPayload ==
  key.cmp # <<>> =>
    /\ key.cmp[1].eq <=> (IsInstance(key.w, {"Key"}) /\ SameTriple(key.x, key.w))
    /\ key.cmp[1].hx = PyHash(KeyPayload(key.x))
    /\ IsInstance(key.w, {"Key"}) =>
         /\ key.cmp[1].hx = key.cmp[1].hw <=> KeyPayload(key.x) = KeyPayload(key.w)
         /\ key.cmp[1].eq => key.cmp[1].hx = key.cmp[1].hw

\* Two keys with the same payload and key_type and different descriptions
\* were compared: unequal, with the same hash.
C3_Witness ==
  /\ key.cmp # <<>>
  /\ IsInstance(key.w, {"Key"})
  /\ KeyPayload(key.x) = KeyPayload(key.w) /\ KeyType(key.x) = KeyType(key.w)
  /\ KeyDescription(key.x) # KeyDescription(key.w)
  /\ ~key.cmp[1].eq
  /\ key.cmp[1].hx = key.cmp[1].hw

\* -------------------------------------- specification: limit_primitive_type
AllowedTypes ==
  {<<"bytes">>, <<"int">>, <<"dict">>, <<"list", "tuple">>, <<"bytes", "str">>,
   <<"IndefiniteList">>}

GuardedValues ==
  {A1, PyBool(TRUE), B7, <<"bytes", <<>>>>, SAB, PyNone, <<"list", <<A1>>>>,
   <<"tuple", <<A1>>>>, <<"IndefiniteList", <<A1>>>>,
   <<"IndefiniteFrozenList", <<A1>>, TRUE>>, <<"dict", <<>>>>,
   <<"OrderedDict", << <<A1, A1>> >> >>, <<"CBORTag", 6, A1>>}

InitGuard ==
  /\ grd \in {[pc |-> "ready", cls |-> c, allowed |-> a, value |-> v,
               res |-> [exc |-> "", msg |-> <<>>, ret |-> PyNone, calls |-> <<>>]] :
               c \in UsedKeyClasses, a \in AllowedTypes, v \in GuardedValues}
  /\ key = Idle
  /\ nrm = Idle
  /\ val = Idle
  /\ enc = Idle
  /\ sgn = Idle
  /\ fil = Idle

\* cls.from_primitive(value), from_primitive being guarded by `allowed`.
CallGuarded ==
  /\ grd.pc = "ready"
  /\ grd' = [grd EXCEPT !.pc = "done",
                        !.res = LimitPrimitiveType(grd.allowed, grd.cls, grd.value)]
  /\ UNCHANGED <<key, nrm, val, enc, sgn, fil>>

NextGuard == CallGuarded

SpecGuard == InitGuard /\ [][NextGuard]_vars

\* ---------------------------------------------------------------- C2
\* The value's kind is one of the allowed kinds: its type is one of them or
\* derives from one of them (bool from int, OrderedDict from dict, ...).
KindAllowed(value, allowed) ==
  \E i \in 1..Len(allowed) :
    TypeOf(value) = allowed[i] \/ allowed[i] \in Bases(TypeOf(value))

\* C2: when the value's kind is not allowed the guarded call fails with
\* DeserializeException, whose message names the allowed kinds and the kind
\* received, and the body is not run; when it is allowed the body runs once,
\* with that value, and its result is returned.
C2_GuardRejectsOrRunsOnce ==
  grd.pc = "done" =>
    IF ~KindAllowed(grd.value, grd.allowed)
    THEN /\ grd.res.exc = "DeserializeException"
         /\ grd.res.msg[1] = <<"allowed", grd.allowed>>
         /\ grd.res.msg[2] = <<"type", TypeOf(grd.value)>>
         /\ grd.res.calls = <<>>
         /\ grd.res.ret = PyNone
    ELSE /\ grd.res.exc = ""
         /\ grd.res.calls = <<grd.value>>
         /\ grd.res.ret = KeyFromPrimitiveBody(grd.cls, grd.value)

\* Key.from_primitive's guard (bytes) was given an int and refused it.
C2_Witness ==
  /\ grd.pc = "done"
  /\ grd.allowed = <<"bytes">>
  /\ grd.value = A1
  /\ grd.res.exc = "DeserializeException"
  /\ grd.res.calls = <<>>

\* ------------------------------------------------------------ BIP32-Ed25519
\* Byte strings of key material are sequences of 32-byte words, a word being
\* a number in Words.  The group has prime order GroupOrder; a point is kept
\* as its encoding, the word n standing for n times the base point (0 is the
\* identity, a word >= GroupOrder encodes no point or a non-canonical scalar).
GroupOrder == 5
Words == 0..GroupOrder

\* crypto_core_ed25519_scalar_reduce(sha512(data).digest()): a scalar.
RECURSIVE Sha512Reduce(_)
Sha512Reduce(data) ==
  IF data = <<>> THEN 1
  ELSE (3 * Sha512Reduce(Tail(data)) + Head(data) + Len(data)) % GroupOrder

\* crypto_scalarmult_ed25519_base_noclamp(n): fails on the identity.
ScalarMultBaseNoclamp(n) ==
  IF n[1] % GroupOrder = 0 THEN Raise("RuntimeError", << <<"got", n>> >>)
  ELSE Return(<<n[1] % GroupOrder>>)

ScalarAdd(a, b) == <<(a[1] + b[1]) % GroupOrder>>
ScalarMul(a, b) == <<(a[1] * b[1]) % GroupOrder>>

\* BIP32ED25519PrivateKey.__init__
PrivateKeyInit(private_key, chain_code) ==
  LET left == SubSeq(private_key, 1, 1)
      right == SubSeq(private_key, 2, Len(private_key))
      pk == ScalarMultBaseNoclamp(left)
  IN IF Raised(pk) THEN pk
     ELSE Return([private_key |-> private_key, left |-> left, right |-> right,
                  chain_code |-> chain_code, public_key |-> pk.ret])

\* BIP32ED25519PrivateKey.sign
Sign(k, message) ==
  LET r == <<Sha512Reduce(k.right \o message)>>
      R == ScalarMultBaseNoclamp(r)
  IN IF Raised(R) THEN R
     ELSE LET hram == <<Sha512Reduce(R.ret \o k.public_key \o message)>>
              S == ScalarAdd(ScalarMul(hram, k.left), r)
          IN Return(<<"bytes", R.ret \o S>>)

\* BIP32ED25519PublicKey.__init__
PublicKeyInit(public_key, chain_code) ==
  [public_key |-> public_key, chain_code |-> chain_code]

\* BIP32ED25519PublicKey.from_private_key
FromPrivateKey(k) == PublicKeyInit(k.public_key, k.chain_code)

\* The Ed25519 verification equation on signature R || S, public key A and
\* message M: S is canonical, R and A are points other than the identity,
\* and [S]B = R + [h]A with h = H(R || A || M).
Ed25519Verifies(R, S, A, M) ==
  /\ S < GroupOrder
  /\ R # 0 /\ R < GroupOrder
  /\ A # 0 /\ A < GroupOrder
  /\ S = (R + Sha512Reduce(<<R>> \o <<A>> \o M) * A) % GroupOrder

\* bindings.crypto_sign_open(signed, pk): the first 64 bytes are the
\* signature, the rest the message, which is returned when it verifies.
CryptoSignOpen(signed, pk) ==
  IF Len(signed) < 2
     \/ ~Ed25519Verifies(signed[1], signed[2], pk[1], SubSeq(signed, 3, Len(signed)))
  THEN Raise("BadSignatureError", << <<"text", "Signature was forged or corrupt">> >>)
  ELSE Return(<<"bytes", SubSeq(signed, 3, Len(signed))>>)

\* BIP32ED25519PublicKey.verify
Verify(pub, signature, message) == CryptoSignOpen(signature \o message, pub.public_key)

\* The attributes of a BIP32ED25519PublicKey: its methods and fields.
PublicKeyAttributes ==
  {"__init__", "from_private_key", "verify", "public_key", "chain_code"}

\* pub.<name>(index): the attribute lookup of a method call on a public key.
PublicKeyCall(pub, name, index) ==
  IF name \notin PublicKeyAttributes
  THEN Raise("AttributeError", << <<"text", name>> >>)
  ELSE Raise("TypeError", << <<"text", name>> >>)

\* --------------------------------------------------- specification: signing
PrivateKeys ==
  {PrivateKeyInit(<<l, rt>>, <<0>>).ret :
     l \in {w \in Words : ~Raised(ScalarMultBaseNoclamp(<<w>>))}, rt \in {0, 1}}

Messages == SeqsUpTo({0, 1}, MaxMsgLen)

\* Signatures handed to verify besides the one sign produced: any one, two
\* or three words (32, 64, 96 bytes), or none.
ForgedSignatures == SeqsUpTo({0, 1, 3, GroupOrder}, 3)

\* The derivation indices tried: <<hardened, n>> stands for hardened * 2^31 + n.
DerivationIndices == {<<h, n>> : h \in {0, 1}, n \in {0, 1}}
DerivationNames == {"derive", "derive_child_public"}

NoKey == [public_key |-> <<>>, chain_code |-> <<>>]

InitSign ==
  /\ sgn \in {[k |-> k, pub |-> NoKey, m |-> <<>>, sig |-> Unset,
               vs |-> <<>>, vm |-> <<>>, vres |-> Unset,
               dname |-> "", dindex |-> <<0, 0>>, dres |-> Unset] : k \in PrivateKeys}
  /\ fil = Idle
  /\ key = Idle
  /\ grd = Idle
  /\ nrm = Idle
  /\ val = Idle
  /\ enc = Idle

\* pub = BIP32ED25519PublicKey.from_private_key(k)
MakePublicKey ==
  /\ sgn.pub = NoKey
  /\ sgn' = [sgn EXCEPT !.pub = FromPrivateKey(sgn.k)]
  /\ UNCHANGED <<key, grd, nrm, val, enc, fil>>

\* sig = k.sign(m)
CallSign ==
  /\ sgn.sig = Unset
  /\ \E m \in Messages :
       sgn' = [sgn EXCEPT !.m = m, !.sig = Sign(sgn.k, m)]
  /\ UNCHANGED <<key, grd, nrm, val, enc, fil>>

\* pub.verify(sig, m) with the signature and message just signed
VerifyOwnSignature ==
  /\ sgn.pub # NoKey /\ sgn.vres = Unset
  /\ sgn.sig # Unset /\ ~Raised(sgn.sig)
  /\ sgn' = [sgn EXCEPT !.vs = sgn.sig.ret[2], !.vm = sgn.m,
                        !.vres = Verify(sgn.pub, sgn.sig.ret[2], sgn.m)]
  /\ UNCHANGED <<key, grd, nrm, val, enc, fil>>

\* pub.verify(s, m) with any signature and message
VerifyAnySignature ==
  /\ sgn.pub # NoKey /\ sgn.vres = Unset
  /\ \E s \in ForgedSignatures, m \in Messages :
       sgn' = [sgn EXCEPT !.vs = s, !.vm = m, !.vres = Verify(sgn.pub, s, m)]
  /\ UNCHANGED <<key, grd, nrm, val, enc, fil>>

\* a child public key asked of pub
CallDerive ==
  /\ sgn.pub # NoKey /\ sgn.dres = Unset
  /\ \E n \in DerivationNames, i \in DerivationIndices :
       sgn' = [sgn EXCEPT !.dname = n, !.dindex = i,
                          !.dres = PublicKeyCall(sgn.pub, n, i)]
  /\ UNCHANGED <<key, grd, nrm, val, enc, fil>>

NextSign ==
  MakePublicKey \/ CallSign \/ VerifyOwnSignature \/ VerifyAnySignature \/ CallDerive

SpecSign == InitSign /\ [][NextSign]_vars

\* ---------------------------------------------------------------- C4
\* The signature s is valid for the key and the message.
ValidFor(pub, m, s) ==
  Len(s) = 2 /\ Ed25519Verifies(s[1], s[2], pub.public_key[1], m)

\* C4: verify returns false, raising nothing, for a 64-byte signature that is
\* not valid for the key and message; it fails with MalformedSignatureError
\* for a signature of any other length; and it leaves the key as it was.
C4_VerifyRejectsWithoutError ==
  /\ sgn.pub # NoKey => sgn.pub = FromPrivateKey(sgn.k)
  /\ sgn.vres # Unset =>
       /\ (Len(sgn.vs) = 2 /\ ~ValidFor(sgn.pub, sgn.vm, sgn.vs)) =>
            sgn.vres = Return(PyBool(FALSE))
       /\ Len(sgn.vs) # 2 => sgn.vres.exc = "MalformedSignatureError"

\* ---------------------------------------------------------------- C5
\* C5: verifying sign(k, m) against m with the public key of k returns true.
C5_OwnSignatureVerifiesTrue ==
  (sgn.vres # Unset /\ sgn.sig = Return(<<"bytes", sgn.vs>>) /\ sgn.vm = sgn.m) =>
    sgn.vres = Return(PyBool(TRUE))

\* ---------------------------------------------------------------- C10
\* C10: a child public key asked of an extended public key with a hardened
\* index (>= 2^31) fails with HardenedDerivationRequiresPrivateKeyError and
\* returns no key.
C10_HardenedPublicDerivationRefused ==
  (sgn.dres # Unset /\ sgn.dindex[1] = 1) =>
    /\ sgn.dres.exc = "HardenedDerivationRequiresPrivateKeyError"
    /\ sgn.dres.ret = PyNone

\* ---------------------------------------------------------------- C11
\* The normalized keys of the entries es are pairwise distinct.
DistinctNormalizedKeys(es) ==
  \A i, j \in 1..Len(es) : Dfs(es[i][1], TRUE) = Dfs(es[j][1], TRUE) => i = j

\* Every mapping normalized on the way from in to out kept its entries: as
\* many, in the same order, each the normalized key and normalized value.
RECURSIVE EntriesPreserved(_, _, _)
EntriesPreserved(in, out, fr) ==
  CASE TypeOf(in) = "Serializable" ->
         EntriesPreserved(ToShallowPrimitive(in), out, fr)
    [] TypeOf(in) \in {"dict", "OrderedDict", "defaultdict"} ->
         DistinctNormalizedKeys(in[2]) =>
           /\ Len(out[2]) = Len(in[2])
           /\ \A i \in 1..Len(in[2]) :
                /\ out[2][i] = <<Dfs(in[2][i][1], TRUE), Dfs(in[2][i][2], fr)>>
                /\ EntriesPreserved(in[2][i][1], out[2][i][1], TRUE)
                /\ EntriesPreserved(in[2][i][2], out[2][i][2], fr)
    [] TypeOf(in) \in {"list", "tuple", "IndefiniteList"} ->
         \A i \in 1..Len(in[2]) : EntriesPreserved(in[2][i], out[2][i], fr)
    [] TypeOf(in) = "set" -> \A e \in in[2] : EntriesPreserved(e, Dfs(e, TRUE), TRUE)
    [] TypeOf(in) = "CBORTag" -> EntriesPreserved(in[3], out[3], fr)
    [] OTHER -> TRUE

\* C11: to_primitive preserves the entries of every mapping it normalizes: a
\* dict, OrderedDict or defaultdict of n entries with pairwise distinct
\* normalized keys gives a mapping of exactly n entries, in insertion order,
\* each (normalized key, normalized value); none is added, dropped or moved.
C11_MappingEntriesPreserved ==
  nrm.pc = "done" => EntriesPreserved(nrm.x, nrm.out, FALSE)

\* ---------------------------------------------------------------- C12
\* C12: a Key constructed without an explicit key_type and description, as
\* from_primitive and from_cbor construct it, takes its class's defaults:
\* key_type is the class's KEY_TYPE and description the class's DESCRIPTION.
C12_DefaultsFromClass ==
  \A r \in {key.y, key.z} :
    (r # Unset /\ ~Raised(r)) =>
      /\ KeyType(r.ret) = KEY_TYPE(TypeOf(r.ret))
      /\ KeyDescription(r.ret) = DESCRIPTION(TypeOf(r.ret))

\* ------------------------------------------------------------ Key.save
\* A path names nothing, a directory, or a regular file with its content; a
\* content is a sequence of written pieces, empty for an empty file.
Absent == <<"absent">>
Directory == <<"dir">>
File(content) == <<"file", content>>

\* os.path.isfile(path)
IsFile(files, path) == files[path][1] = "file"

\* os.stat(path).st_size, counted in pieces
StSize(files, path) == Len(files[path][2])

\* Key.to_json: the type, the description and the CBOR hex of the key.
ToJson(k) ==
  LET AfterHex(h) == IF Raised(h) THEN h
                     ELSE Return(<<"json", KeyType(k), KeyDescription(k), h.ret>>)
  IN AfterHex(ToCborHex(k))

\* with open(path, "w") as f: f.write(self.to_json()).  Opening creates or
\* truncates the file; a directory cannot be opened for writing.
OpenAndWrite(files, k, path) ==
  IF files[path] = Directory
  THEN [files |-> files,
        res |-> Raise("IsADirectoryError", << <<"text", path>> >>)]
  ELSE LET AfterJson(j) ==
             IF Raised(j) THEN [files |-> [files EXCEPT ![path] = File(<<>>)], res |-> j]
             ELSE [files |-> [files EXCEPT ![path] = File(<<j.ret>>)],
                   res |-> Return(PyNone)]
       IN AfterJson(ToJson(k))

\* (mutant) save without the test for an existing file.
SaveUnguarded(files, k, path) == OpenAndWrite(files, k, path)

\* Key.save
Save(files, k, path) ==
  IF IsFile(files, path) /\ StSize(files, path) > 0
  THEN [files |-> files, res |-> Raise("IOError", << <<"text", path>> >>)]
  ELSE OpenAndWrite(files, k, path)

\* ------------------------------------------------------ specification: save
Paths == {"payment.skey", "payment_veryfication_key.vkey"}

\* What a path may name before the first save.
InitialEntries == {Absent, Directory, File(<<>>), File(<< <<"text", "old">> >>)}

SavedKeys ==
  {KeyInit(c, <<"bytes", <<7>>>>, NoneArg, e) :
     c \in {"PaymentSigningKey", "PaymentVerificationKey"}, e \in DescriptionArgs}

InitSave ==
  /\ fil \in {[files |-> f, calls |-> 0, k |-> <<>>, path |-> "", before |-> f,
               res |-> Unset] : f \in [Paths -> InitialEntries]}
  /\ key = Idle
  /\ grd = Idle
  /\ nrm = Idle
  /\ val = Idle
  /\ enc = Idle
  /\ sgn = Idle

\* k.save(path)
CallSave ==
  /\ fil.calls < MaxSaves
  /\ \E k \in SavedKeys, path \in Paths :
       LET Done(r) == [files |-> r.files, calls |-> fil.calls + 1, k |-> k,
                       path |-> path, before |-> fil.files, res |-> r.res]
       IN fil' = Done(Save(fil.files, k, path))
  /\ UNCHANGED <<key, grd, nrm, val, enc, sgn>>

NextSave == CallSave

SpecSave == InitSave /\ [][NextSave]_vars

\* ---------------------------------------------------------------- C13
NonEmptyFile(entry) == entry[1] = "file" /\ entry[2] # <<>>

\* C13: a save on a path naming a file with content fails with IOError and
\* leaves the content as it was; save changes a path only when it named no
\* file or an empty file, to a file holding the key's JSON; other paths are
\* never touched.
C13_SaveNeverOverwrites ==
  fil.res # Unset =>
    /\ NonEmptyFile(fil.before[fil.path]) =>
         /\ fil.res.exc = "IOError"
         /\ fil.files[fil.path] = fil.before[fil.path]
    /\ fil.files[fil.path] # fil.before[fil.path] =>
         /\ fil.before[fil.path] \in {Absent, File(<<>>)}
         /\ fil.files[fil.path] = File(<<ToJson(fil.k).ret>>)
         /\ ~Raised(fil.res)
    /\ \A q \in Paths \ {fil.path} : fil.files[q] = fil.before[q]

\* A key was saved to a fresh path, and a later save of another key to the
\* same path was refused, the first key's JSON still in place.
C13_Witness ==
  /\ fil.calls = 2
  /\ fil.res.exc = "IOError"
  /\ fil.before[fil.path] # File(<< <<"text", "old">> >>)
  /\ NonEmptyFile(fil.before[fil.path])
  /\ fil.files[fil.path] = fil.before[fil.path]
  /\ fil.files[fil.path] # File(<<ToJson(fil.k).ret>>)

====
